---- MODULE Spec2Model ----
(***************************************************************************)
(* Model of src/multiexp.rs: the in-memory base source, the density        *)
(* tracker, the per-window bucket reduction of multiexp_inner, and the     *)
(* composition of the windows' futures by join/map.                        *)
(*                                                                         *)
(* The curve group is modelled by the cyclic group Z_Modulus (identity 0), *)
(* whose order is the modulus of the scalar field, as for the G1 groups    *)
(* the tests use.  Scalars are canonical representations 0..Modulus-1.     *)
(***************************************************************************)
EXTENDS Integers, Sequences, FiniteSets

VARIABLES
    bases,          \* Arc<Vec<G>> of the source builder
    start,          \* usize of the source builder (G, usize)
    density,        \* the density map: FullDensity or a DensityTracker
    exponents,      \* Arc<Vec<Repr>>
    call,           \* which entry point has been applied
    c,              \* window width of the call
    result,         \* what the returned future resolved to
    tasks,          \* per window: the state of the closure given to pool.compute
    all_done,       \* all_done of the join's current poll pass
    pollPos,        \* next window the current poll pass of the join visits
    bv,             \* DensityTracker.bv
    total_density,  \* DensityTracker.total_density
    lastOp,         \* last DensityTracker / Source operation and what it saw
    cursor,         \* (Arc<Vec<G>>, usize).1 of a stand-alone source
    to              \* the accumulator handed to add_assign_mixed

vars == <<bases, start, density, exponents, call, c, result, tasks, all_done,
          pollPos, bv, total_density, lastOp, cursor, to>>

----------------------------------------------------------------------------
(* Bounds of the model *)

Modulus == 11
MaxN == 2
MaxSlots == 5
MaxSkip == 3

----------------------------------------------------------------------------
(* Arithmetic of the collaborators *)

RECURSIVE Pow2(_)
Pow2(n) == IF n = 0 THEN 1 ELSE 2 * Pow2(n - 1)

RECURSIVE BitLen(_)
BitLen(n) == IF n = 0 THEN 0 ELSE 1 + BitLen(n \div 2)

\* Fr::NUM_BITS: the bit length of the field modulus
NUM_BITS == BitLen(Modulus)

Points == 0 .. (Modulus - 1)
Scalars == 0 .. (Modulus - 1)

\* G::Projective::zero(), and the point G::is_zero() recognises
Identity == 0

AddAssign(p, q) == (p + q) % Modulus

Double(p) == (2 * p) % Modulus

\* base.mul(exp) of the naive evaluation
Mul(p, s) == (p * s) % Modulus

\* Fr::zero().into_repr() and Fr::one().into_repr()
ZeroRepr == 0
OneRepr == 1

Min(a, b) == IF a <= b THEN a ELSE b

----------------------------------------------------------------------------
(* impl SourceBuilder / Source for (Arc<Vec<G>>, usize) *)

\* SourceBuilder::new: the source shares the vector and copies the usize
SourceNew(s) == s

\* SourceAddAssignMixed without the is_zero test
SourceAddAssignMixed_NoIdentityTest(bs, cur, acc) ==
    IF Len(bs) <= cur
    THEN [err |-> "eof", cur |-> cur, to |-> acc]
    ELSE [err |-> "none", cur |-> cur + 1, to |-> AddAssign(acc, bs[cur + 1])]

\* Source::add_assign_mixed on the source (bs, cur), adding into acc
SourceAddAssignMixed(bs, cur, acc) ==
    IF Len(bs) <= cur
    THEN [err |-> "eof", cur |-> cur, to |-> acc]
    ELSE IF bs[cur + 1] = Identity
         THEN [err |-> "identity", cur |-> cur, to |-> acc]
         ELSE [err |-> "none", cur |-> cur + 1, to |-> AddAssign(acc, bs[cur + 1])]

\* SourceSkip without the length test
SourceSkip_NoLengthTest(bs, cur, amt) == [err |-> "none", cur |-> cur + amt]

\* SourceSkip that reads and validates the element it skips
SourceSkip_Validate(bs, cur, amt) ==
    IF Len(bs) <= cur
    THEN [err |-> "eof", cur |-> cur]
    ELSE IF bs[cur + 1] = Identity
         THEN [err |-> "identity", cur |-> cur]
         ELSE [err |-> "none", cur |-> cur + amt]

\* Source::skip on the source (bs, cur)
SourceSkip(bs, cur, amt) ==
    IF Len(bs) <= cur
    THEN [err |-> "eof", cur |-> cur]
    ELSE [err |-> "none", cur |-> cur + amt]

----------------------------------------------------------------------------
(* QueryDensity for FullDensity and DensityTracker *)

FullDensity == [full |-> TRUE, bv |-> <<>>]

Tracker(bits) == [full |-> FALSE, bv |-> bits]

\* get_query_size: None is modelled by -1
GetQuerySize(d) == IF d.full THEN -1 ELSE Len(d.bv)

\* the i-th item (from 0) of density_map.as_ref().iter()
DensityAt(d, i) == IF d.full THEN TRUE ELSE d.bv[i + 1]

\* length of exponents.iter().zip(density_map.as_ref().iter())
ZipLen(exps, d) == IF d.full THEN Len(exps) ELSE Min(Len(exps), Len(d.bv))

----------------------------------------------------------------------------
(* The closure multiexp_inner gives to pool.compute, one loop iteration per step *)

NewTask(s, cc) ==
    [st      |-> "run",
     idx     |-> 0,
     cur     |-> SourceNew(s),
     acc     |-> Identity,
     buckets |-> [i \in 1 .. (Pow2(cc) - 1) |-> Identity],
     err     |-> "none"]

\* Digit without the shift by skip
Digit_NoShift(exp, skip, cc) == exp % Pow2(cc)

\* exp.shr(skip); exp.as_ref()[0] % (1 << c)
Digit(exp, skip, cc) == (exp \div Pow2(skip)) % Pow2(cc)

\* bases.skip(1)?
TaskSkip(t, bs) ==
    LET r == SourceSkip(bs, t.cur, 1)
    IN  IF r.err # "none"
        THEN [t EXCEPT !.st = "err", !.err = r.err]
        ELSE [t EXCEPT !.cur = r.cur, !.idx = @ + 1]

\* bases.add_assign_mixed(&mut acc)?
TaskAddAcc(t, bs) ==
    LET r == SourceAddAssignMixed(bs, t.cur, t.acc)
    IN  IF r.err # "none"
        THEN [t EXCEPT !.st = "err", !.err = r.err]
        ELSE [t EXCEPT !.cur = r.cur, !.acc = r.to, !.idx = @ + 1]

\* bases.add_assign_mixed(&mut buckets[(exp - 1) as usize])?
TaskAddBucket(t, bs, digit) ==
    LET r == SourceAddAssignMixed(bs, t.cur, t.buckets[digit])
    IN  IF r.err # "none"
        THEN [t EXCEPT !.st = "err", !.err = r.err]
        ELSE [t EXCEPT !.cur = r.cur, !.buckets[digit] = r.to, !.idx = @ + 1]

\* TaskInactive that advances the base source
TaskInactive_Skip(t, bs) == TaskSkip(t, bs)

\* a slot whose density bit is false: the loop body does nothing
TaskInactive(t, bs) == [t EXCEPT !.idx = @ + 1]

\* the body of the for loop for slot t.idx
SlotStep(t, bs, d, exps, skip, cc, ht) ==
    LET exp == exps[t.idx + 1]
    IN  IF ~DensityAt(d, t.idx) THEN TaskInactive(t, bs)
        ELSE IF exp = ZeroRepr THEN TaskSkip(t, bs)
        ELSE IF exp = OneRepr
             THEN IF ht THEN TaskAddAcc(t, bs) ELSE TaskSkip(t, bs)
             ELSE LET digit == Digit(exp, skip, cc)
                  IN  IF digit # 0 THEN TaskAddBucket(t, bs, digit)
                      ELSE TaskSkip(t, bs)

\* summation by parts: buckets visited from the last to the first
RECURSIVE SumByParts(_, _, _, _)
SumByParts(buckets, i, running_sum, acc) ==
    IF i = 0 THEN acc
    ELSE LET rs == AddAssign(running_sum, buckets[i])
         IN  SumByParts(buckets, i - 1, rs, AddAssign(acc, rs))

\* the code after the loop: Ok(acc)
FinishTask(t) ==
    [t EXCEPT !.st = "ok",
              !.acc = SumByParts(t.buckets, Len(t.buckets), Identity, t.acc)]

TaskStep(t, bs, d, exps, skip, cc, ht) ==
    IF t.idx < ZipLen(exps, d)
    THEN SlotStep(t, bs, d, exps, skip, cc, ht)
    ELSE FinishTask(t)

RECURSIVE RunTask(_, _, _, _, _, _, _)
RunTask(t, bs, d, exps, skip, cc, ht) ==
    IF t.st # "run" THEN t
    ELSE RunTask(TaskStep(t, bs, d, exps, skip, cc, ht), bs, d, exps, skip, cc, ht)

----------------------------------------------------------------------------
(* The recursion of multiexp_inner over the windows *)

\* NumWindows that stops before a last, narrower window
NumWindows_Floor(cc) == IF NUM_BITS < cc THEN 1 ELSE NUM_BITS \div cc

\* windows skip = 0, c, 2c, ... while skip < NUM_BITS
NumWindows(cc) == (NUM_BITS + cc - 1) \div cc

Windows(cc) == 0 .. (NumWindows(cc) - 1)

WindowSkip(w, cc) == w * cc

\* HandleTrivial that hands the caller's flag to every window
HandleTrivial_Always(w, ht) == ht

\* handle_trivial of window w: the caller's flag for the first, false above
HandleTrivial(w, ht) == IF w = 0 THEN ht ELSE FALSE

\* what window w's closure returns
WindowResult(bs, s, d, exps, w, cc, ht) ==
    RunTask(NewTask(s, cc), bs, d, exps, WindowSkip(w, cc), cc, HandleTrivial(w, ht))

RECURSIVE DoubleTimes(_, _)
DoubleTimes(p, n) == IF n = 0 THEN p ELSE DoubleTimes(Double(p), n - 1)

\* the closure of map: higher doubled c times, then this added
Combine(this, higher, cc) == AddAssign(DoubleTimes(higher, cc), this)

\* the value of the future multiexp_inner returns for window w, given the
\* windows' values vals (a function on Windows(cc))
RECURSIVE Compose(_, _, _)
Compose(vals, w, cc) ==
    IF w = NumWindows(cc) - 1 THEN vals[w]
    ELSE Combine(vals[w], Compose(vals, w + 1, cc), cc)

Ok(p) == [kind |-> "point", pt |-> p]
Err(k) == [kind |-> k, pt |-> Identity]
Pending == [kind |-> "pending", pt |-> Identity]

\* every result the composed future can resolve to: the composed point when
\* all windows succeed, else the error of a failing window (join reports the
\* first failure it observes, which depends on the completion order)
InnerOutcomes(bs, s, d, exps, cc, ht) ==
    LET res == [w \in Windows(cc) |-> WindowResult(bs, s, d, exps, w, cc, ht)]
        failed == {w \in Windows(cc) : res[w].st = "err"}
    IN  IF failed = {}
        THEN {Ok(Compose([w \in Windows(cc) |-> res[w].acc], 0, cc))}
        ELSE {Err(res[w].err) : w \in failed}

\* floor(e^k) for k = 1 .. 21
ExpFloors ==
    <<2, 7, 20, 54, 148, 403, 1096, 2980, 8103, 22026, 59874, 162754, 442413,
      1202604, 3269017, 8886110, 24154952, 65659969, 178482300, 485165195,
      1318815734>>

\* (f64::from(n)).ln().ceil() for n >= 1: the least k with n <= e^k
CeilLn(n) ==
    IF n <= 1 THEN 0
    ELSE 1 + Cardinality({k \in DOMAIN ExpFloors : ExpFloors[k] < n})

\* multiexp's choice of c
WindowWidth(n) == IF n < 32 THEN 3 ELSE CeilLn(n)

----------------------------------------------------------------------------
(* Inputs *)

SeqsUpTo(S, n) == UNION {[1 .. k -> S] : k \in 0 .. n}

\* points the bases are drawn from: the identity and two others
BasePoints == {p \in Points : p \in {Identity, 1, 3}}

\* scalars the exponents are drawn from: zero, one, and values whose
\* nonzero digits lie in the low window, in a higher window, or in both
ExpScalars == {s \in Scalars : s \in {0, 1, 7, 8, 10}}

\* the usize the caller puts in the source builder
StartOffsets == {0, 1}

\* FullDensity, a tracker with one slot per exponent, or a tracker whose
\* size differs from the number of exponents
DensitiesFor(exps) ==
    {FullDensity}
        \cup {Tracker(b) : b \in [1 .. Len(exps) -> BOOLEAN]}
        \cup {Tracker([i \in 1 .. (Len(exps) + 1) |-> TRUE])}

InitInputs(S) ==
    /\ bases \in SeqsUpTo(BasePoints, MaxN)
    /\ start \in StartOffsets
    /\ exponents \in SeqsUpTo(S, MaxN)
    /\ density \in DensitiesFor(exponents)

NoCall ==
    /\ call = "none"
    /\ c = 0
    /\ result = Pending

NoTasks ==
    /\ tasks = <<>>
    /\ all_done = TRUE
    /\ pollPos = 0

\* no DensityTracker or stand-alone Source operation has run
NoOp == [op |-> "none", arg |-> 0, pre |-> 0, flag |-> "none"]

NoTracker ==
    /\ bv = <<>>
    /\ total_density = 0

NoSource ==
    /\ cursor = 0
    /\ to = Identity

\* the assert! of multiexp
QuerySizeOk(d, exps) == GetQuerySize(d) = -1 \/ GetQuerySize(d) = Len(exps)

----------------------------------------------------------------------------
(* multiexp and multiexp_inner as functions of their inputs *)

InitFn ==
    /\ InitInputs(ExpScalars)
    /\ NoCall /\ NoTasks /\ NoTracker /\ NoSource
    /\ lastOp = NoOp

\* multiexp(pool, bases, density_map, exponents), waited for
Multiexp ==
    /\ call = "none"
    /\ call' = "multiexp"
    /\ c' = WindowWidth(Len(exponents))
    /\ IF QuerySizeOk(density, exponents)
       THEN result' \in InnerOutcomes(bases, start, density, exponents, c', TRUE)
       ELSE result' = Err("panic")
    /\ UNCHANGED <<bases, start, density, exponents, tasks, all_done, pollPos,
                   bv, total_density, lastOp, cursor, to>>

\* multiexp_inner(pool, bases, density_map, exponents, 0, cc, true), waited for
MultiexpInner(cc) ==
    /\ call = "none"
    /\ call' = "inner"
    /\ c' = cc
    /\ result' \in InnerOutcomes(bases, start, density, exponents, cc, TRUE)
    /\ UNCHANGED <<bases, start, density, exponents, tasks, all_done, pollPos,
                   bv, total_density, lastOp, cursor, to>>

NextFn ==
    \/ Multiexp
    \/ \E cc \in 1 .. (NUM_BITS - 1) : MultiexpInner(cc)

SpecFn == InitFn /\ [][NextFn]_vars

----------------------------------------------------------------------------
(* multiexp on the worker pool: one task per window, joined by the future *)

Init ==
    /\ InitInputs(ExpScalars)
    /\ NoCall /\ NoTasks /\ NoTracker /\ NoSource
    /\ lastOp = NoOp

\* StoreTask with one cursor shared by the windows' sources
StoreTask_SharedCursor(ts, w, t) ==
    [v \in DOMAIN ts |-> IF v = w THEN t ELSE [ts[v] EXCEPT !.cur = t.cur]]

\* a task's closure owns its source: a step writes the task's own state only
StoreTask(ts, w, t) == [ts EXCEPT ![w] = t]

\* multiexp: the assert, then multiexp_inner's recursion, which hands one
\* closure per window to pool.compute and joins their futures
MultiexpSpawn ==
    /\ call = "none"
    /\ call' = "multiexp"
    /\ c' = WindowWidth(Len(exponents))
    /\ IF QuerySizeOk(density, exponents)
       THEN /\ tasks' = [w \in Windows(c') |-> NewTask(start, c')]
            /\ result' = Pending
       ELSE /\ tasks' = <<>>
            /\ result' = Err("panic")
    /\ UNCHANGED <<bases, start, density, exponents, all_done, pollPos,
                   bv, total_density, lastOp, cursor, to>>

\* a pool thread runs the next step of window w's closure
Work(w) ==
    /\ call = "multiexp"
    /\ w \in DOMAIN tasks
    /\ tasks[w].st = "run"
    /\ tasks' = StoreTask(tasks, w,
                    TaskStep(tasks[w], bases, density, exponents,
                             WindowSkip(w, c), c, HandleTrivial(w, TRUE)))
    /\ UNCHANGED <<bases, start, density, exponents, call, c, result, all_done,
                   pollPos, bv, total_density, lastOp, cursor, to>>

\* what the join resolves to on finding window w failed
JoinFailure(t) == Err(t.err)

\* the waiting thread polls the joined future: Join::poll visits the windows
\* from the lowest, fails on the first failed one it finds, and yields the
\* composed point once it has found every window finished
PollWindow ==
    /\ call = "multiexp"
    /\ result = Pending
    /\ LET w == pollPos
           t == tasks[w]
           ad == all_done /\ t.st = "ok"
       IN  IF t.st = "err"
           THEN /\ result' = JoinFailure(t)
                /\ UNCHANGED <<pollPos, all_done>>
           ELSE IF w < NumWindows(c) - 1
                THEN /\ pollPos' = w + 1
                     /\ all_done' = ad
                     /\ UNCHANGED result
                ELSE IF ad
                     THEN /\ result' = Ok(Compose([v \in Windows(c) |-> tasks[v].acc], 0, c))
                          /\ UNCHANGED <<pollPos, all_done>>
                     ELSE /\ pollPos' = 0
                          /\ all_done' = TRUE
                          /\ UNCHANGED result
    /\ UNCHANGED <<bases, start, density, exponents, call, c, tasks,
                   bv, total_density, lastOp, cursor, to>>

Next ==
    \/ MultiexpSpawn
    \/ \E w \in 0 .. (NUM_BITS - 1) : Work(w)
    \/ PollWindow

Spec == Init /\ [][Next]_vars

----------------------------------------------------------------------------
(* DensityTracker *)

\* DensityTracker::new
TrackerNew == [bv |-> <<>>, total_density |-> 0]

\* DensityTracker::add_element
TrackerAddElement(tr) == [tr EXCEPT !.bv = Append(@, FALSE)]

\* TrackerInc without the test of the bit
TrackerInc_Unconditional(tr, idx) ==
    [bv |-> [tr.bv EXCEPT ![idx + 1] = TRUE],
     total_density |-> tr.total_density + 1]

\* DensityTracker::inc, for idx inside the stored slots
TrackerInc(tr, idx) ==
    IF ~tr.bv[idx + 1]
    THEN [bv |-> [tr.bv EXCEPT ![idx + 1] = TRUE],
          total_density |-> tr.total_density + 1]
    ELSE tr

\* DensityTracker::get_total_density
GetTotalDensity(tr) == tr.total_density

ThisTracker == [bv |-> bv, total_density |-> total_density]

InitTracker ==
    /\ bv = TrackerNew.bv
    /\ total_density = TrackerNew.total_density
    /\ lastOp = NoOp
    /\ bases = <<>> /\ start = 0 /\ density = FullDensity /\ exponents = <<>>
    /\ NoCall /\ NoTasks /\ NoSource

New ==
    /\ bv' = TrackerNew.bv
    /\ total_density' = TrackerNew.total_density
    /\ lastOp' = [op |-> "new", arg |-> 0, pre |-> GetTotalDensity(ThisTracker),
                  flag |-> "none"]
    /\ UNCHANGED <<bases, start, density, exponents, call, c, result, tasks,
                   all_done, pollPos, cursor, to>>

AddElement ==
    /\ Len(bv) < MaxSlots
    /\ bv' = TrackerAddElement(ThisTracker).bv
    /\ total_density' = TrackerAddElement(ThisTracker).total_density
    /\ lastOp' = [op |-> "add_element", arg |-> 0,
                  pre |-> GetTotalDensity(ThisTracker), flag |-> "none"]
    /\ UNCHANGED <<bases, start, density, exponents, call, c, result, tasks,
                   all_done, pollPos, cursor, to>>

Inc(idx) ==
    /\ idx < Len(bv)
    /\ bv' = TrackerInc(ThisTracker, idx).bv
    /\ total_density' = TrackerInc(ThisTracker, idx).total_density
    /\ lastOp' = [op |-> "inc", arg |-> idx, pre |-> GetTotalDensity(ThisTracker),
                  flag |-> IF bv[idx + 1] THEN "was_set" ELSE "was_clear"]
    /\ UNCHANGED <<bases, start, density, exponents, call, c, result, tasks,
                   all_done, pollPos, cursor, to>>

NextTracker ==
    \/ New
    \/ AddElement
    \/ \E idx \in 0 .. (MaxSlots - 1) : Inc(idx)

SpecTracker == InitTracker /\ [][NextTracker]_vars

----------------------------------------------------------------------------
(* A source used on its own *)

InitSource ==
    /\ bases \in SeqsUpTo(BasePoints, MaxN + 1)
    /\ start \in StartOffsets
    /\ cursor = SourceNew(start)
    /\ to = Identity
    /\ lastOp = NoOp
    /\ density = FullDensity /\ exponents = <<>>
    /\ NoCall /\ NoTasks /\ NoTracker

Skip(amt) ==
    /\ cursor' = SourceSkip(bases, cursor, amt).cur
    /\ lastOp' = [op |-> "skip", arg |-> amt, pre |-> cursor,
                  flag |-> SourceSkip(bases, cursor, amt).err]
    /\ UNCHANGED <<bases, start, density, exponents, call, c, result, tasks,
                   all_done, pollPos, bv, total_density, to>>

AddAssignMixed ==
    /\ cursor' = SourceAddAssignMixed(bases, cursor, to).cur
    /\ to' = SourceAddAssignMixed(bases, cursor, to).to
    /\ lastOp' = [op |-> "add_assign_mixed", arg |-> 0, pre |-> cursor,
                  flag |-> SourceAddAssignMixed(bases, cursor, to).err]
    /\ UNCHANGED <<bases, start, density, exponents, call, c, result, tasks,
                   all_done, pollPos, bv, total_density>>

NextSource ==
    \/ \E amt \in 0 .. MaxSkip : Skip(amt)
    \/ AddAssignMixed

SpecSource == InitSource /\ [][NextSource]_vars

----------------------------------------------------------------------------
(* Reference evaluation *)

\* naive_multiexp of test_with_bls12
RECURSIVE NaiveMultiexp(_, _)
NaiveMultiexp(bs, exps) ==
    IF exps = <<>> THEN Identity
    ELSE AddAssign(Mul(bs[Len(exps)], exps[Len(exps)]),
                   NaiveMultiexp(bs, SubSeq(exps, 1, Len(exps) - 1)))

\* the bases a source built from (bs, s) can supply
Supplied(bs, s) == SubSeq(bs, s + 1, Len(bs))

SlotsOf(exps) == 1 .. Len(exps)

ActiveSlots(d, exps) == {i \in SlotsOf(exps) : DensityAt(d, i - 1)}

\* the exponents of the active slots, in index order
RECURSIVE ActiveExps(_, _)
ActiveExps(d, exps) ==
    IF exps = <<>> THEN <<>>
    ELSE LET front == ActiveExps(d, SubSeq(exps, 1, Len(exps) - 1))
         IN  IF DensityAt(d, Len(exps) - 1)
             THEN Append(front, exps[Len(exps)])
             ELSE front

\* position in bs (from 1) of the base of active slot i
BaseIndex(d, s, i) == s + Cardinality({j \in 1 .. i : DensityAt(d, j - 1)})

\* no base supplied for an active slot with a nonzero scalar is the identity
ContributingBasesValid(bs, s, d, exps) ==
    \A i \in ActiveSlots(d, exps) :
        (exps[i] # ZeroRepr /\ BaseIndex(d, s, i) <= Len(bs))
            => bs[BaseIndex(d, s, i)] # Identity

----------------------------------------------------------------------------
(* Claims about multiexp as a function *)

\* C1: with FullDensity, N >= 1 supplied bases none of which is the
\* identity and N scalars, multiexp resolves to the naive sum of s_i * B_i.
C1_EqualsNaive ==
    (/\ call = "multiexp"
     /\ density = FullDensity
     /\ Len(exponents) >= 1
     /\ Len(Supplied(bases, start)) = Len(exponents)
     /\ \A i \in SlotsOf(exponents) : Supplied(bases, start)[i] # Identity)
        => result = Ok(NaiveMultiexp(Supplied(bases, start), exponents))

C1_Witness ==
    /\ call = "multiexp"
    /\ density = FullDensity
    /\ Len(exponents) = 2
    /\ Len(Supplied(bases, start)) = 2
    /\ bases[1] # Identity /\ bases[2] # Identity /\ bases[1] # bases[2]
    /\ exponents[1] >= Pow2(c) /\ exponents[2] \in 2 .. (Pow2(c) - 1)
    /\ result.kind = "point" /\ result.pt # Identity

C3_WidthInvariance ==
    call = "inner" =>
        \A c2 \in 1 .. (NUM_BITS - 1) :
            LET other == InnerOutcomes(bases, start, density, exponents, c2, TRUE)
            IN  IF result.kind = "point"
                THEN other = {result}
                ELSE \A o \in other : o.kind # "point"

C3_Witness ==
    /\ call = "inner"
    /\ NUM_BITS % c # 0
    /\ Len(exponents) = 2
    /\ exponents[1] = OneRepr /\ exponents[2] >= Pow2(c)
    /\ result.kind = "point" /\ result.pt # Identity

ReplaceBase(bs, i, p) == [bs EXCEPT ![i] = p]

\* C6: an active slot whose scalar is zero is skipped without its base
\* being read: whatever point stands at its place in the bases, the identity
\* included, multiexp has the same outcomes.
C6_ZeroScalarNeutral ==
    (call = "multiexp" /\ QuerySizeOk(density, exponents)) =>
        \A i \in ActiveSlots(density, exponents) :
            (exponents[i] = ZeroRepr /\ BaseIndex(density, start, i) <= Len(bases)) =>
                \A p \in BasePoints :
                    result \in InnerOutcomes(
                        ReplaceBase(bases, BaseIndex(density, start, i), p),
                        start, density, exponents, c, TRUE)

C6_Witness ==
    /\ call = "multiexp"
    /\ density = FullDensity
    /\ start = 0
    /\ Len(exponents) = 2 /\ Len(bases) = 2
    /\ exponents[1] = ZeroRepr /\ exponents[2] >= 2
    /\ bases[1] # Identity
    /\ result.kind = "point" /\ result.pt # Identity

----------------------------------------------------------------------------
(* Claims about multiexp on the worker pool *)

Resolved == call = "multiexp" /\ result.kind \in {"point", "eof", "identity"}

\* an active slot with a nonzero scalar whose supplied base is the identity
IdentityAtContributingSlot == ~ContributingBasesValid(bases, start, density, exponents)

\* the source supplies fewer bases than there are active slots
SourceTooShort ==
    Len(Supplied(bases, start)) < Cardinality(ActiveSlots(density, exponents))

\* C4 as stated: an identity base at an active slot with a nonzero scalar
\* makes multiexp resolve to UnexpectedIdentity.
C4_AlwaysIdentityError ==
    (Resolved /\ IdentityAtContributingSlot) => result.kind = "identity"

\* C4: an identity base at an active slot with a nonzero scalar makes
\* multiexp resolve to a failure, never a point; the failure is
\* UnexpectedIdentity when the source supplies a base for every active slot
\* (when it supplies fewer it may be UnexpectedEof).
C4_IdentityRejected ==
    (Resolved /\ IdentityAtContributingSlot) =>
        /\ result.kind \in {"identity", "eof"}
        /\ ~SourceTooShort => result.kind = "identity"

C4_Witness ==
    /\ Resolved
    /\ ~SourceTooShort
    /\ density = FullDensity
    /\ start = 0
    /\ Len(exponents) = 2
    /\ exponents[1] = OneRepr /\ exponents[2] = Pow2(c)
    /\ bases[1] # Identity /\ bases[2] = Identity
    /\ tasks[0].st = "ok"
    /\ result.kind = "identity"

\* C5 as stated: a source that supplies fewer bases than there are active
\* slots makes multiexp resolve to UnexpectedEof.
C5_AlwaysEofError ==
    (Resolved /\ SourceTooShort) => result.kind = "eof"

\* C5: a source that supplies fewer bases than there are active slots makes
\* multiexp resolve to a failure, never a point, whatever the scalars; the
\* failure is UnexpectedEof unless a supplied base of an active slot with a
\* nonzero scalar is the identity (then it may be UnexpectedIdentity).
C5_ShortSourceRejected ==
    (Resolved /\ SourceTooShort) =>
        /\ result.kind \in {"eof", "identity"}
        /\ ~IdentityAtContributingSlot => result.kind = "eof"

C5_Witness ==
    /\ Resolved
    /\ SourceTooShort
    /\ density = FullDensity
    /\ Len(exponents) = 2
    /\ exponents[1] = ZeroRepr /\ exponents[2] = ZeroRepr
    /\ Len(Supplied(bases, start)) = 1
    /\ result.kind = "eof"

\* what the joined future resolves to on the pool is one of InnerOutcomes,
\* the results Multiexp draws from (holds under Spec)
ResultIsInnerOutcome ==
    Resolved => result \in InnerOutcomes(bases, start, density, exponents, c, TRUE)

\* the windows multiexp_inner covers: skip = w * c below NUM_BITS
CoveredWindows == {w \in 0 .. (NUM_BITS - 1) : w * c < NUM_BITS}

\* acc_w + 2^c * (acc_(w+1) + 2^c * ( ... acc_top)) in the group
RECURSIVE PositionalSum(_, _)
PositionalSum(w, top) ==
    IF w > top THEN Identity
    ELSE AddAssign(tasks[w].acc, Mul(PositionalSum(w + 1, top), Pow2(c) % Modulus))

\* C9: under every interleaving the future resolves to a point only when
\* every window with skip below NUM_BITS has succeeded, and then to the sum
\* of all of them; a failure it resolves to is the failure of some window.
C9_NoPartialResult ==
    Resolved =>
        IF result.kind = "point"
        THEN /\ \A w \in CoveredWindows : w \in DOMAIN tasks /\ tasks[w].st = "ok"
             /\ \A w \in DOMAIN tasks : tasks[w].st = "ok"
             /\ result.pt = PositionalSum(0, NumWindows(c) - 1)
        ELSE \E w \in DOMAIN tasks : tasks[w].st = "err" /\ tasks[w].err = result.kind

\* the future has failed on a higher window while the lowest is still running
C9_Witness ==
    /\ Resolved
    /\ result.kind = "identity"
    /\ tasks[0].st = "run"
    /\ tasks[1].st = "err"

\* C10 as stated: every window's source starts at the start of the bases.
C10_StartsAtArrayStart ==
    \A w \in DOMAIN tasks : tasks[w].idx = 0 => tasks[w].cur = 0

\* C10: every window's source starts at the builder's offset (the start of
\* the array when the offset is 0) and is moved only by its own window: its
\* cursor is the offset plus the active slots that window has passed.
C10_OwnCursor ==
    \A w \in DOMAIN tasks :
        tasks[w].cur = start + Cardinality({j \in 1 .. tasks[w].idx :
                                               DensityAt(density, j - 1)})

C10_Witness ==
    /\ call = "multiexp"
    /\ result = Pending
    /\ start = 1
    /\ tasks[0].st = "run" /\ tasks[0].cur = 1
    /\ tasks[1].st = "run" /\ tasks[1].cur = 2

----------------------------------------------------------------------------
(* Claims about the DensityTracker and the Source *)

TrueBits == {i \in 1 .. Len(bv) : bv[i]}

\* C7: after any sequence of new, add_element and inc inside the stored
\* slots, get_total_density() is the number of true bits; add_element and an
\* inc of a bit already set leave the count as it was.
C7_DensityIsTrueBits ==
    /\ GetTotalDensity(ThisTracker) = Cardinality(TrueBits)
    /\ lastOp.op = "add_element" => GetTotalDensity(ThisTracker) = lastOp.pre
    /\ (lastOp.op = "inc" /\ lastOp.flag = "was_set")
           => GetTotalDensity(ThisTracker) = lastOp.pre

\* a second inc of the same index, with other bits set and clear around it
C7_Witness ==
    /\ lastOp.op = "inc" /\ lastOp.flag = "was_set"
    /\ Len(bv) >= 3
    /\ Cardinality(TrueBits) = 2

\* C8: skip(n) fails with UnexpectedEof whenever fewer than n elements
\* remain after the cursor and otherwise advances the cursor by exactly n,
\* so that no successful skip or add_assign_mixed leaves the cursor past the
\* end of the bases.
C8_SkipChecksRemaining ==
    /\ lastOp.op = "skip" =>
           IF Len(bases) - lastOp.pre < lastOp.arg
           THEN lastOp.flag = "eof" /\ cursor = lastOp.pre
           ELSE lastOp.flag = "none" /\ cursor = lastOp.pre + lastOp.arg
    /\ (lastOp.op # "none" /\ lastOp.flag = "none") => cursor <= Len(bases)

====
